---------------------------- MODULE Spec2Model ----------------------------
(***************************************************************************)
(* A model of sboehler/got's repository package                            *)
(* (src/pkg/repository/repository.go) and of the hash-object command       *)
(* (src/cmd/catFile.go):                                                   *)
(*                                                                         *)
(*   - the object codec (ObjectFile.Write, ReadObjectFile), byte by byte;  *)
(*   - the repository locator (Init, Load, Find) over a small directory    *)
(*     tree, every system call of Init and Find being one step so that     *)
(*     other calls interleave with it;                                     *)
(*   - the object store (WriteObject, Hash, LoadObject) over the objects/  *)
(*     directory, atomic.WriteFile being temp file, copy and rename.       *)
(*                                                                         *)
(* Bytes are naturals.  Strings the code compares or parses are byte       *)
(* sequences.                                                              *)
(***************************************************************************)
EXTENDS Integers, Sequences, FiniteSets, TLC

VARIABLES
    \* codec
    inp,        \* the reader handed to ReadObjectFile: [data, bad]
    dec,        \* what ReadObjectFile returned for it
    \* locator
    node,       \* path -> "none" | "dir" | "file"
    gitdir,     \* path -> the entries present below path/.git
    lpc,        \* process -> position in Init / Load / Find
    larg,       \* process -> the path argument of the running call
    lcur,       \* process -> Find's current directory
    lidx,       \* process -> index of Init's next creation step
    lret,       \* process -> what the last call returned
    lsnap,      \* process -> the directories that held a .git directory, and a
                \* config file, when its Find was called
    lfail,      \* process -> a system call of the running call returned an error
    lcalls,     \* number of calls started
    \* store
    objdirs,    \* the fan-out directories objects/<xx> that exist
    objfiles,   \* the files objects/<dir>/<name>: [dir, name, data]
    tmp,        \* process -> the temp file of its atomic.WriteFile: [open, dir, data]
    spc,        \* process -> position in WriteObject
    sreq,       \* process -> the running WriteObject call
    sret,       \* process -> what the last call returned
    written,    \* the WriteObject calls that returned no error
    scalls      \* number of calls started

codecVars   == <<inp, dec>>
locatorVars == <<node, gitdir, lpc, larg, lcur, lidx, lret, lsnap, lfail, lcalls>>
storeVars   == <<objdirs, objfiles, tmp, spc, sreq, sret, written, scalls>>
vars        == <<codecVars, locatorVars, storeVars>>

-----------------------------------------------------------------------------
(* Bounds *)

MaxLen   == 2      \* longest payload
MaxCalls == 2      \* calls started in one behaviour
MaxDepth == 2      \* deepest directory below the filesystem root

-----------------------------------------------------------------------------
(* Bytes and strings *)

SP  == 32
NUL == 0

Blob == <<98, 108, 111, 98>>        \* "blob"
Tree == <<116, 114, 101, 101>>      \* "tree"

validObjectType == {Blob}

Min(a, b) == IF a < b THEN a ELSE b

RECURSIVE SeqsUpTo(_, _)
SeqsUpTo(S, n) ==
    IF n = 0 THEN {<<>>}
    ELSE LET shorter == SeqsUpTo(S, n - 1)
         IN  shorter \cup {Append(s, x) : s \in {t \in shorter : Len(t) = n - 1}, x \in S}

-----------------------------------------------------------------------------
(* strconv *)

RECURSIVE FormatInt(_)
FormatInt(n) ==
    IF n < 10 THEN <<48 + n>> ELSE FormatInt(n \div 10) \o <<48 + (n % 10)>>

IsDigit(b) == b >= 48 /\ b <= 57

RECURSIVE DigitsVal(_)
DigitsVal(ds) ==
    IF Len(ds) = 0 THEN 0
    ELSE 10 * DigitsVal(SubSeq(ds, 1, Len(ds) - 1)) + (ds[Len(ds)] - 48)

\* strconv.ParseInt(s, 10, 64): an optional sign, then one or more digits.
ParseInt(s) ==
    LET signed == Len(s) > 0 /\ s[1] \in {43, 45}
        neg    == Len(s) > 0 /\ s[1] = 45
        ds     == IF signed THEN Tail(s) ELSE s
    IN  IF Len(ds) = 0 \/ \E i \in 1..Len(ds) : ~IsDigit(ds[i])
        THEN [ok |-> FALSE, val |-> 0]
        ELSE [ok |-> TRUE, val |-> IF neg THEN 0 - DigitsVal(ds) ELSE DigitsVal(ds)]

-----------------------------------------------------------------------------
(* The object codec *)

\* ObjectFile.Write: what it writes to w.
ObjectFileWrite(of) ==
    of.ObjectType \o <<SP>> \o FormatInt(Len(of.Data)) \o <<NUL>> \o of.Data

IndexByte(s, d) ==
    IF \E i \in 1..Len(s) : s[i] = d
    THEN CHOOSE i \in 1..Len(s) : s[i] = d /\ \A j \in 1..(i - 1) : s[j] # d
    ELSE 0

\* bufio.Reader.ReadBytes(delim) on a reader r = [data, bad]: the bytes up to
\* and including the first delim; an error when the stream ends, or fails,
\* before one is found.
ReadBytes(r, delim) ==
    LET i == IndexByte(r.data, delim)
    IN  IF i = 0
        THEN [err |-> TRUE, bs |-> r.data, rest |-> [data |-> <<>>, bad |-> r.bad]]
        ELSE [err |-> FALSE, bs |-> SubSeq(r.data, 1, i),
              rest |-> [data |-> SubSeq(r.data, i + 1, Len(r.data)), bad |-> r.bad]]

\* io.ReadAll(r)
ReadAll(r) == [err |-> r.bad, bs |-> r.data]

NilObjectFile(msg) == [nil |-> TRUE, ObjectType |-> <<>>, Data |-> <<>>, err |-> msg]

\* A decoder that stops after the declared number of bytes.
ReadObjectFileLimit(r) ==
    LET a == ReadBytes(r, SP) IN
    IF a.err THEN NilObjectFile("couldn't read object type")
    ELSE LET ot == SubSeq(a.bs, 1, Len(a.bs) - 1) IN
    IF ot \notin validObjectType THEN NilObjectFile("invalid object type")
    ELSE LET b == ReadBytes(a.rest, NUL) IN
    IF b.err THEN NilObjectFile("couldn't read object size")
    ELSE LET size == ParseInt(SubSeq(b.bs, 1, Len(b.bs) - 1)) IN
    IF ~size.ok THEN NilObjectFile("invalid size")
    ELSE LET all == ReadAll(b.rest)
             data == SubSeq(all.bs, 1, Min(Len(all.bs), size.val)) IN
    IF all.err THEN NilObjectFile("couldn't read data")
    ELSE IF Len(data) # size.val THEN NilObjectFile("len(data) != size")
    ELSE [nil |-> FALSE, ObjectType |-> ot, Data |-> data, err |-> ""]

ReadObjectFile(r) ==
    LET a == ReadBytes(r, SP) IN
    IF a.err THEN NilObjectFile("couldn't read object type")
    ELSE LET ot == SubSeq(a.bs, 1, Len(a.bs) - 1) IN
    IF ot \notin validObjectType THEN NilObjectFile("invalid object type")
    ELSE LET b == ReadBytes(a.rest, NUL) IN
    IF b.err THEN NilObjectFile("couldn't read object size")
    ELSE LET size == ParseInt(SubSeq(b.bs, 1, Len(b.bs) - 1)) IN
    IF ~size.ok THEN NilObjectFile("invalid size")
    ELSE LET all == ReadAll(b.rest) IN
    IF all.err THEN NilObjectFile("couldn't read data")
    ELSE IF Len(all.bs) # size.val THEN NilObjectFile("len(data) != size")
    ELSE [nil |-> FALSE, ObjectType |-> ot, Data |-> all.bs, err |-> ""]


-----------------------------------------------------------------------------
(* Hashing and compression *)

RECURSIVE Reverse(_)
Reverse(bs) == IF Len(bs) = 0 THEN <<>> ELSE Append(Reverse(Tail(bs)), Head(bs))

RECURSIVE SumBytes(_)
SumBytes(bs) == IF Len(bs) = 0 THEN 0 ELSE Head(bs) + SumBytes(Tail(bs))

\* sha1: a digest without collisions on the inputs of the model, which is all
\* the store relies on.  It is the input reversed, so that the first digest
\* byte, hence the fan-out directory, varies with the payload.
Sha1Sum(bs) == Reverse(bs)

\* hex.EncodeToString: two lowercase hex digits per byte.
HexDigit(n) == IF n < 10 THEN 48 + n ELSE 87 + n
RECURSIVE HexEncodeToString(_)
HexEncodeToString(bs) ==
    IF Len(bs) = 0 THEN <<>>
    ELSE <<HexDigit(Head(bs) \div 16), HexDigit(Head(bs) % 16)>>
            \o HexEncodeToString(Tail(bs))


\* zlib: a two-byte header, one stored block (its length, then its bytes) and
\* a checksum of the bytes.
Adler(bs) == (1 + SumBytes(bs)) % 251
ZlibWrite(bs) == <<120, 156, Len(bs)>> \o bs \o <<Adler(bs)>>

\* zlib.NewReader(f): the header is read and checked at once.
ZlibHeaderOk(file) == Len(file) >= 2 /\ file[1] = 120 /\ file[2] = 156

\* What the zlib reader delivers: the bytes of the block that are there, and
\* an error after them when the block is cut short or the checksum differs.
ZlibReader(file) ==
    IF Len(file) < 3 THEN [data |-> <<>>, bad |-> TRUE]
    ELSE LET n    == file[3]
             data == SubSeq(file, 4, Min(3 + n, Len(file)))
         IN  [data |-> data,
              bad  |-> \/ Len(file) < 4 + n
                       \/ file[4 + n] # Adler(data)]

\* A hash of the compressed buffer.
HashOfCompressed(of) == HexEncodeToString(Sha1Sum(ZlibWrite(ObjectFileWrite(of))))

\* Hash(of): of.Write into a sha1 hasher, the sum in hex.
Hash(of) == HexEncodeToString(Sha1Sum(ObjectFileWrite(of)))

\* r.GitPath("objects", hash[:2], hash[2:])
ObjectDir(hash)  == SubSeq(hash, 1, 2)
ObjectName(hash) == SubSeq(hash, 3, Len(hash))

-----------------------------------------------------------------------------
(* Inputs *)

PayloadBytes == {NUL, 49}
Payloads     == SeqsUpTo(PayloadBytes, MaxLen)
ObjectTypes  == {Blob, Tree}
ObjectFiles  == [ObjectType : ObjectTypes, Data : Payloads]

\* Readers handed to ReadObjectFile: well-formed records and records with a
\* part missing, misspelt or of the wrong length.
LenStrings  == SeqsUpTo({48, 49, 50, 43, 120}, 2)
CodecInputs ==
    {t \o s1 \o l \o s2 \o d :
        t \in {Blob, Tree, <<>>, <<98>>}, s1 \in {<<>>, <<SP>>},
        l \in LenStrings, s2 \in {<<>>, <<NUL>>}, d \in Payloads}

-----------------------------------------------------------------------------
(* The states in which a component is not exercised *)

Paths == SeqsUpTo({"a"}, MaxDepth)
Procs == {1, 2}    \* two concurrent callers

NoRet == [op |-> "none", status |-> "none", path |-> <<>>, root |-> <<>>, err |-> ""]
NoSnap == [git |-> {}, config |-> {}]

LocatorIdle ==
    /\ node   = [p \in Paths |-> IF p = <<>> THEN "dir" ELSE "none"]
    /\ gitdir = [p \in Paths |-> {}]
    /\ lpc    = [i \in Procs |-> "idle"]
    /\ larg   = [i \in Procs |-> <<>>]
    /\ lcur   = [i \in Procs |-> <<>>]
    /\ lidx   = [i \in Procs |-> 1]
    /\ lret   = [i \in Procs |-> NoRet]
    /\ lsnap  = [i \in Procs |-> NoSnap]
    /\ lfail  = [i \in Procs |-> FALSE]
    /\ lcalls = 0

NoTemp == [open |-> FALSE, dir |-> <<>>, data |-> <<>>]
NoObjectFile == [ObjectType |-> <<>>, Data |-> <<>>]
NoReq  == [of |-> NoObjectFile, hash |-> <<>>, buf |-> <<>>]
NoSRet == [op |-> "none", status |-> "none", of |-> NoObjectFile, hash |-> <<>>,
           want |-> <<>>, data |-> <<>>, err |-> "", hadDir |-> FALSE]

StoreIdle ==
    /\ objdirs  = {}
    /\ objfiles = {}
    /\ tmp      = [i \in Procs |-> NoTemp]
    /\ spc      = [i \in Procs |-> "idle"]
    /\ sreq     = [i \in Procs |-> NoReq]
    /\ sret     = [i \in Procs |-> NoSRet]
    /\ written  = {}
    /\ scalls   = 0

CodecIdle ==
    /\ inp = [data |-> <<>>, bad |-> FALSE]
    /\ dec = [done |-> FALSE, res |-> NilObjectFile("")]

-----------------------------------------------------------------------------
(* The codec on its own: ReadObjectFile applied to one reader *)

CodecInit ==
    /\ inp \in [data : CodecInputs, bad : BOOLEAN]
    /\ dec = [done |-> FALSE, res |-> NilObjectFile("")]
    /\ LocatorIdle
    /\ StoreIdle

Decode ==
    /\ ~dec.done
    /\ dec' = [done |-> TRUE, res |-> ReadObjectFile(inp)]
    /\ UNCHANGED <<inp, locatorVars, storeVars>>

CodecNext == Decode

CodecSpec == CodecInit /\ [][CodecNext]_vars

\* The record's framing, read off the input: the first SP, the first NUL
\* after it, the decimal between them and the bytes after the NUL.
FirstSP  == IndexByte(inp.data, SP)
FirstNUL ==
    IF FirstSP = 0 THEN 0
    ELSE LET k == IndexByte(SubSeq(inp.data, FirstSP + 1, Len(inp.data)), NUL)
         IN  IF k = 0 THEN 0 ELSE FirstSP + k
Framed    == FirstSP > 0 /\ FirstNUL > 0
Declared  == ParseInt(SubSeq(inp.data, FirstSP + 1, FirstNUL - 1))
Following == SubSeq(inp.data, FirstNUL + 1, Len(inp.data))

\* C6: ReadObjectFile rejects every record whose declared decimal length
\* differs from the number of bytes that follow the NUL, whether bytes are
\* missing or in excess, and returns an ObjectFile only when the two are
\* equal (its Data then being exactly those bytes).
C6_LengthChecked ==
    dec.done =>
        /\ (Framed /\ Declared.ok /\ Declared.val # Len(Following)) => dec.res.nil
        /\ ~dec.res.nil =>
              /\ Framed /\ Declared.ok
              /\ Declared.val = Len(Following)
              /\ dec.res.Data = Following

\* A blob record with more bytes than it declares, read without error, rejected.
C6_Witness ==
    /\ dec.done /\ ~inp.bad /\ Framed /\ Declared.ok
    /\ SubSeq(inp.data, 1, FirstSP - 1) = Blob
    /\ Declared.val < Len(Following)
    /\ dec.res.nil /\ dec.res.err = "len(data) != size"


-----------------------------------------------------------------------------
(* The repository locator: Init, Load, Find *)

\* filepath.Join(path, "..") made absolute: the root is its own parent.
Parent(path) == IF path = <<>> THEN <<>> ELSE SubSeq(path, 1, Len(path) - 1)

Children(path) == {q \in Paths : q # <<>> /\ Parent(q) = path}

\* The entries of path/.git that Init creates, in the order of its calls:
\* four os.MkdirAll, then three atomic.WriteFile.
InitStepsConfigFirst ==
    << [call |-> "MkdirAll",  adds |-> {".git", "branches"}],
       [call |-> "MkdirAll",  adds |-> {".git", "objects"}],
       [call |-> "MkdirAll",  adds |-> {".git", "refs", "refs/tags"}],
       [call |-> "MkdirAll",  adds |-> {".git", "refs", "refs/heads"}],
       [call |-> "WriteFile", adds |-> {"config"}],
       [call |-> "WriteFile", adds |-> {"description"}],
       [call |-> "WriteFile", adds |-> {"HEAD"}] >>

InitSteps ==
    << [call |-> "MkdirAll",  adds |-> {".git", "branches"}],
       [call |-> "MkdirAll",  adds |-> {".git", "objects"}],
       [call |-> "MkdirAll",  adds |-> {".git", "refs", "refs/tags"}],
       [call |-> "MkdirAll",  adds |-> {".git", "refs", "refs/heads"}],
       [call |-> "WriteFile", adds |-> {"description"}],
       [call |-> "WriteFile", adds |-> {"HEAD"}],
       [call |-> "WriteFile", adds |-> {"config"}] >>

\* A directory read that never reports an entry.
DirEmptyAlways(path) == TRUE

\* ioutil.ReadDir(path) returns no entry.
DirEmpty(path) ==
    /\ gitdir[path] = {}
    /\ \A q \in Children(path) : node[q] = "none"

\* os.Stat(path/.git) succeeds and s.IsDir().
IsGitDir(path) == ".git" \in gitdir[path]

\* ini.Load(path/.git/config) succeeds: the file Init wrote is there.
ConfigLoads(path) == "config" \in gitdir[path]

LRet(i, st, root, msg) == [lret[i] EXCEPT !.status = st, !.root = root, !.err = msg]

\* The call of process i returns: its locals are gone.
LReturn(i, st, root, msg) ==
    /\ lret' = [lret EXCEPT ![i] = LRet(i, st, root, msg)]
    /\ lpc'  = [lpc EXCEPT ![i] = "idle"]
    /\ larg' = [larg EXCEPT ![i] = <<>>]
    /\ lcur' = [lcur EXCEPT ![i] = <<>>]
    /\ lidx' = [lidx EXCEPT ![i] = 1]

LCall(i, path, pc) ==
    /\ lpc[i] = "idle"
    /\ lcalls < MaxCalls
    /\ lcalls' = lcalls + 1
    /\ lpc'   = [lpc EXCEPT ![i] = pc]
    /\ larg'  = [larg EXCEPT ![i] = path]
    /\ lfail' = [lfail EXCEPT ![i] = FALSE]

Running(op, path) ==
    [op |-> op, status |-> "running", path |-> path, root |-> <<>>, err |-> ""]

\* Init(path): filepath.Abs.
InitCall(i, path) ==
    /\ LCall(i, path, "InitStat")
    /\ lret' = [lret EXCEPT ![i] = Running("Init", path)]
    /\ UNCHANGED <<node, gitdir, lcur, lidx, lsnap, codecVars, storeVars>>

\* Init: os.Stat(path), s.IsDir(), ioutil.ReadDir(path).
InitStat(i) ==
    /\ lpc[i] = "InitStat"
    /\ IF node[larg[i]] = "file"
       THEN LReturn(i, "err", <<>>, "is not a directory")
       ELSE IF node[larg[i]] = "dir"
       THEN IF ~DirEmpty(larg[i])
            THEN LReturn(i, "err", <<>>, "is not empty")
            ELSE /\ lpc'  = [lpc EXCEPT ![i] = "InitCreate"]
                 /\ lidx' = [lidx EXCEPT ![i] = 1]
                 /\ UNCHANGED <<lret, larg, lcur>>
       ELSE /\ lpc' = [lpc EXCEPT ![i] = "InitMkdir"]
            /\ UNCHANGED <<lret, lidx, larg, lcur>>
    /\ UNCHANGED <<node, gitdir, lsnap, lfail, lcalls, codecVars, storeVars>>

\* Init: os.Mkdir(path, dirperms).  It fails when path exists by now, when its
\* parent is no directory, and whenever the system refuses.
InitMkdir(i) ==
    /\ lpc[i] = "InitMkdir"
    /\ \/ /\ node[larg[i]] = "none"
          /\ node[Parent(larg[i])] = "dir"
          /\ node' = [node EXCEPT ![larg[i]] = "dir"]
          /\ lpc'  = [lpc EXCEPT ![i] = "InitCreate"]
          /\ lidx' = [lidx EXCEPT ![i] = 1]
          /\ UNCHANGED <<lret, lfail, larg, lcur>>
       \/ /\ LReturn(i, "err", <<>>, "could not create repository")
          /\ lfail' = [lfail EXCEPT ![i] = TRUE]
          /\ UNCHANGED node
    /\ UNCHANGED <<gitdir, lsnap, lcalls, codecVars, storeVars>>

\* Init: the next os.MkdirAll or atomic.WriteFile below path/.git; after the
\* last one the handle is returned.  Any of them may fail.
InitCreate(i) ==
    /\ lpc[i] = "InitCreate"
    /\ LET step == InitSteps[lidx[i]] IN
       \/ /\ node[larg[i]] = "dir"
          /\ step.call = "WriteFile" => ".git" \in gitdir[larg[i]]
          /\ gitdir' = [gitdir EXCEPT ![larg[i]] = @ \cup step.adds]
          /\ IF lidx[i] = Len(InitSteps)
             THEN LReturn(i, "handle", larg[i], "")
             ELSE /\ lidx' = [lidx EXCEPT ![i] = @ + 1]
                  /\ UNCHANGED <<lret, lpc, larg, lcur>>
          /\ UNCHANGED lfail
       \/ /\ LReturn(i, "err", <<>>, step.call)
          /\ lfail' = [lfail EXCEPT ![i] = TRUE]
          /\ UNCHANGED gitdir
    /\ UNCHANGED <<node, lsnap, lcalls, codecVars, storeVars>>

\* Load(path): filepath.Abs, ini.Load.
Load(i, path) ==
    /\ lpc[i] = "idle"
    /\ lcalls < MaxCalls
    /\ lcalls' = lcalls + 1
    /\ lfail' = [lfail EXCEPT ![i] = FALSE]
    /\ lret' = [lret EXCEPT ![i] =
                  [op |-> "Load", path |-> path,
                   status |-> IF ConfigLoads(path) THEN "handle" ELSE "err",
                   root   |-> IF ConfigLoads(path) THEN path ELSE <<>>,
                   err    |-> IF ConfigLoads(path) THEN "" ELSE "load"]]
    /\ UNCHANGED <<node, gitdir, lpc, larg, lcur, lidx, lsnap, codecVars, storeVars>>

\* Find(path): filepath.Abs.
FindCall(i, path) ==
    /\ LCall(i, path, "FindStat")
    /\ lret'  = [lret EXCEPT ![i] = Running("Find", path)]
    /\ lcur'  = [lcur EXCEPT ![i] = path]
    /\ lsnap' = [lsnap EXCEPT ![i] = [git    |-> {q \in Paths : IsGitDir(q)},
                                      config |-> {q \in Paths : ConfigLoads(q)}]]
    /\ UNCHANGED <<node, gitdir, lidx, codecVars, storeVars>>

\* A walk that does not compare the parent with the path.
FindStatNoRootCheck(i) ==
    /\ lpc[i] = "FindStat"
    /\ IF IsGitDir(lcur[i])
       THEN /\ lpc' = [lpc EXCEPT ![i] = "FindLoad"]
            /\ UNCHANGED <<lret, lcur, larg, lidx>>
       ELSE /\ lcur' = [lcur EXCEPT ![i] = Parent(lcur[i])]
            /\ UNCHANGED <<lret, lpc, larg, lidx>>
    /\ UNCHANGED <<node, gitdir, lsnap, lfail, lcalls, codecVars, storeVars>>

\* Find: os.Stat(path/.git); without a .git directory, on to the parent, and
\* an error when the parent is the path itself.
FindStat(i) ==
    /\ lpc[i] = "FindStat"
    /\ IF IsGitDir(lcur[i])
       THEN /\ lpc' = [lpc EXCEPT ![i] = "FindLoad"]
            /\ UNCHANGED <<lret, lcur, larg, lidx>>
       ELSE IF Parent(lcur[i]) = lcur[i]
       THEN LReturn(i, "err", <<>>, "could not find parent git directory")
       ELSE /\ lcur' = [lcur EXCEPT ![i] = Parent(lcur[i])]
            /\ UNCHANGED <<lret, lpc, larg, lidx>>
    /\ UNCHANGED <<node, gitdir, lsnap, lfail, lcalls, codecVars, storeVars>>

\* Find: ini.Load(path/.git/config) of the directory whose .git was found.
FindLoad(i) ==
    /\ lpc[i] = "FindLoad"
    /\ IF ConfigLoads(lcur[i])
       THEN LReturn(i, "handle", lcur[i], "")
       ELSE LReturn(i, "err", lcur[i], "load")
    /\ UNCHANGED <<node, gitdir, lsnap, lfail, lcalls, codecVars, storeVars>>

\* Everything a completed Init leaves below path/.git.
InitEntries == UNION {InitSteps[k].adds : k \in 1..Len(InitSteps)}

\* The directory tree the calls start from: the root, below it files and
\* directories, at most one of the directories initialized by an earlier Init.
LocatorInit ==
    /\ node \in [Paths -> {"none", "dir", "file"}]
    /\ node[<<>>] = "dir"
    /\ \A q \in Paths : node[q] # "none" => node[Parent(q)] = "dir"
    /\ gitdir \in [Paths -> {{}, InitEntries}]
    /\ \A q \in Paths : gitdir[q] # {} => node[q] = "dir"
    /\ \A q, r \in Paths : (gitdir[q] # {} /\ gitdir[r] # {}) => q = r
    /\ lpc    = [i \in Procs |-> "idle"]
    /\ larg   = [i \in Procs |-> <<>>]
    /\ lcur   = [i \in Procs |-> <<>>]
    /\ lidx   = [i \in Procs |-> 1]
    /\ lret   = [i \in Procs |-> NoRet]
    /\ lsnap  = [i \in Procs |-> NoSnap]
    /\ lfail  = [i \in Procs |-> FALSE]
    /\ lcalls = 0
    /\ CodecIdle
    /\ StoreIdle

LocatorNext ==
    \E i \in Procs :
        \/ \E path \in Paths : InitCall(i, path)
        \/ InitStat(i)
        \/ InitMkdir(i)
        \/ InitCreate(i)
        \/ \E path \in Paths : Load(i, path)
        \/ \E path \in Paths : FindCall(i, path)
        \/ FindStat(i)
        \/ FindLoad(i)

LocatorSpec == LocatorInit /\ [][LocatorNext]_vars

\* Every call runs to completion on its thread.
LocatorFair ==
    LocatorSpec /\ \A i \in Procs : WF_vars(FindStat(i) \/ FindLoad(i))


-----------------------------------------------------------------------------
(* Claims about the locator *)

\* The layout of an initialized repository.
RequiredEntries ==
    {".git", "branches", "objects", "refs", "refs/tags", "refs/heads",
     "description", "HEAD", "config"}

AncestorsOf(path) == {SubSeq(path, 1, k) : k \in 0..Len(path)}

HasEntries(path) ==
    \/ gitdir[path] # {}
    \/ \E q \in Paths : Len(q) = Len(path) + 1 /\ path \in AncestorsOf(q) /\ node[q] # "none"

\* C7: when Init examines a path that is a regular file, or a directory with
\* at least one entry, it returns an error at once and changes nothing in
\* the filesystem.
C7_InitRefuses ==
    [][\A i \in Procs :
         ( /\ lpc[i] = "InitStat" /\ lpc'[i] # "InitStat"
           /\ \/ node[larg[i]] = "file"
              \/ node[larg[i]] = "dir" /\ HasEntries(larg[i]) )
         => /\ lpc'[i] = "idle"
            /\ lret'[i].op = "Init" /\ lret'[i].status = "err"
            /\ node' = node /\ gitdir' = gitdir]_vars

\* Init has refused a directory that holds an entry.
C7_Witness ==
    \E i \in Procs :
        /\ lret[i].op = "Init" /\ lret[i].status = "err"
        /\ lret[i].err = "is not empty"
        /\ node[lret[i].path] = "dir" /\ HasEntries(lret[i].path)

\* The nearest of a set of directories among the ancestors of path.
Marked(S, path) == {q \in AncestorsOf(path) : q \in S}
Nearest(S, path) ==
    CHOOSE q \in Marked(S, path) : \A r \in Marked(S, path) : Len(r) <= Len(q)

GitDirsNow == {q \in Paths : ".git" \in gitdir[q]}

FindReturned(i) == lret[i].op = "Find" /\ lret[i].status # "running"

\* What a finished Find returned, against the directories that held a marker
\* when it was called and those that hold one now.
FindResultOk(i) ==
    LET p == lret[i].path
        r == lret[i].root
        passed == {q \in AncestorsOf(p) : Len(q) > Len(r)}
    IN  FindReturned(i) =>
          /\ lret[i].status = "handle" =>
                /\ r \in AncestorsOf(p)
                /\ {".git", "config"} \subseteq gitdir[r]
                /\ passed \cap lsnap[i].git = {}
          /\ (lret[i].status = "err" /\ lret[i].err = "load") =>
                /\ r \in AncestorsOf(p)
                /\ ".git" \in gitdir[r]
                /\ r \notin lsnap[i].config
                /\ passed \cap lsnap[i].git = {}
          /\ (lret[i].status = "err" /\ lret[i].err # "load") =>
                /\ lret[i].err = "could not find parent git directory"
                /\ Marked(lsnap[i].git, p) = {}
          /\ ( /\ Marked(lsnap[i].git, p) # {}
               /\ Marked(GitDirsNow, p) = Marked(lsnap[i].git, p)
               /\ Nearest(lsnap[i].git, p) \in lsnap[i].config )
             => lret[i].status = "handle" /\ r = Nearest(lsnap[i].git, p)

\* C8, as amended: Find always terminates.  It stops at the first directory,
\* from path upwards, in which it finds the marker directory; it returns a
\* handle rooted there when that directory's config file loads and the load
\* error, without looking further up, when it does not.  Every directory
\* nearer to path held no marker when Find was called.  When no directory
\* from path up to the filesystem root holds the marker, Find fails with a
\* not-found error at the root.
C8_FindAmended ==
    /\ [](\A i \in Procs : FindResultOk(i))
    /\ \A i \in Procs : (lpc[i] \in {"FindStat", "FindLoad"}) ~> (lpc[i] = "idle")

\* Find, called in a nested directory of a repository, has walked up to its root.
C8_Witness ==
    \E i \in Procs :
        /\ FindReturned(i) /\ lret[i].status = "handle"
        /\ Len(lret[i].path) >= 2 /\ lret[i].root = <<>>

\* C8 as claimed: below a repository root that Init created, Find returns a
\* handle rooted at the nearest ancestor (or path itself) that contains the
\* marker directory; with no marker directory up to the filesystem root it
\* fails with a not-found error.
C8_FindOriginal ==
    \A i \in Procs :
        FindReturned(i) =>
          /\ ( /\ \E q \in AncestorsOf(lret[i].path) : RequiredEntries \subseteq gitdir[q]
               /\ Marked(GitDirsNow, lret[i].path) = Marked(lsnap[i].git, lret[i].path) )
             => /\ lret[i].status = "handle"
                /\ lret[i].root = Nearest(GitDirsNow, lret[i].path)
          /\ Marked(GitDirsNow, lret[i].path) = {}
             => lret[i].status = "err" /\ lret[i].err = "could not find parent git directory"

\* C9: whenever Init has returned a handle, everything it creates exists
\* below path/.git; whenever one of its creation steps failed, it returned an
\* error and no handle; and a Load or Find that returned a handle did so for
\* a subtree in which no subdirectory or marker file is missing.
C9_AllOrNothing ==
    \A i \in Procs :
        /\ (lret[i].op = "Init" /\ lret[i].status = "handle")
              => RequiredEntries \subseteq gitdir[lret[i].path] /\ ~lfail[i]
        /\ (lret[i].op = "Init" /\ lfail[i]) => lret[i].status = "err"
        /\ (lret[i].op \in {"Load", "Find"} /\ lret[i].status = "handle")
              => RequiredEntries \subseteq gitdir[lret[i].root]

\* Init has returned a handle and a Load or Find has opened what it created.
C9_Witness ==
    \E i, j \in Procs :
        /\ lret[i].op = "Init" /\ lret[i].status = "handle"
        /\ lret[j].op \in {"Load", "Find"} /\ lret[j].status = "handle"
        /\ lret[j].root = lret[i].path


-----------------------------------------------------------------------------
(* The object store: WriteObject, Hash, LoadObject *)

FilesAt(hash) == {f \in objfiles : f.dir = ObjectDir(hash) /\ f.name = ObjectName(hash)}

SReturn(i, ret) ==
    /\ sret' = [sret EXCEPT ![i] = ret]
    /\ spc'  = [spc EXCEPT ![i] = "idle"]
    /\ sreq' = [sreq EXCEPT ![i] = NoReq]

\* WriteObject(of), up to the call of atomic.WriteFile: the record is
\* compressed into buf and hashed.
WriteObject(i, of) ==
    /\ spc[i] = "idle"
    /\ scalls < MaxCalls
    /\ scalls' = scalls + 1
    /\ spc'  = [spc EXCEPT ![i] = "TempFile"]
    /\ sreq' = [sreq EXCEPT ![i] =
                  [of |-> of, hash |-> Hash(of), buf |-> ZlibWrite(ObjectFileWrite(of))]]
    /\ sret' = [sret EXCEPT ![i] =
                  [NoSRet EXCEPT !.op = "WriteObject", !.status = "running", !.of = of,
                                 !.hadDir = ObjectDir(Hash(of)) \in objdirs]]
    /\ UNCHANGED <<objdirs, objfiles, tmp, written, codecVars, locatorVars>>

\* atomic.WriteFile: ioutil.TempFile(dir, file).  The temp file is created in
\* the directory of the destination, which must exist; otherwise WriteObject
\* returns the hash and the error.
WriteFileTemp(i) ==
    /\ spc[i] = "TempFile"
    /\ IF ObjectDir(sreq[i].hash) \in objdirs
       THEN /\ tmp' = [tmp EXCEPT ![i] =
                         [open |-> TRUE, dir |-> ObjectDir(sreq[i].hash), data |-> <<>>]]
            /\ spc' = [spc EXCEPT ![i] = "Copy"]
            /\ UNCHANGED <<sret, sreq>>
       ELSE /\ SReturn(i, [sret[i] EXCEPT !.status = "err", !.hash = sreq[i].hash,
                                          !.err = "cannot create temp file"])
            /\ UNCHANGED tmp
    /\ UNCHANGED <<objdirs, objfiles, written, scalls, codecVars, locatorVars>>

\* atomic.WriteFile: io.Copy(f, r), f.Sync, f.Close on the temp file.
WriteFileCopy(i) ==
    /\ spc[i] = "Copy"
    /\ tmp' = [tmp EXCEPT ![i].data = sreq[i].buf]
    /\ spc' = [spc EXCEPT ![i] = "Rename"]
    /\ UNCHANGED <<objdirs, objfiles, sreq, sret, written, scalls, codecVars, locatorVars>>

\* atomic.WriteFile: ReplaceFile(temp, filename), a rename over the
\* destination; WriteObject returns the hash.
WriteFileRename(i) ==
    /\ spc[i] = "Rename"
    /\ objfiles' = (objfiles \ FilesAt(sreq[i].hash))
                      \cup {[dir |-> ObjectDir(sreq[i].hash),
                             name |-> ObjectName(sreq[i].hash), data |-> tmp[i].data]}
    /\ tmp' = [tmp EXCEPT ![i] = NoTemp]
    /\ written' = written \cup {[of |-> sreq[i].of, hash |-> sreq[i].hash]}
    /\ SReturn(i, [sret[i] EXCEPT !.status = "ok", !.hash = sreq[i].hash])
    /\ UNCHANGED <<objdirs, scalls, codecVars, locatorVars>>

\* Hash(of), as hash-object calls it without the write flag.
HashDry(i, of) ==
    /\ spc[i] = "idle"
    /\ scalls < MaxCalls
    /\ scalls' = scalls + 1
    /\ sret' = [sret EXCEPT ![i] =
                  [NoSRet EXCEPT !.op = "Hash", !.status = "ok", !.of = of,
                                 !.hash = Hash(of)]]
    /\ UNCHANGED <<objdirs, objfiles, tmp, spc, sreq, written, codecVars, locatorVars>>

\* LoadObject(sha, objectType) on the files as they are: os.Open,
\* zlib.NewReader, ReadObjectFile, whose error is not looked at before
\* of.ObjectType is read, the comparison of the types, object.NewBlob.
LoadObjectResult(sha, objectType) ==
    IF FilesAt(sha) = {} THEN [status |-> "err", err |-> "error loading object", data |-> <<>>]
    ELSE LET file == (CHOOSE f \in FilesAt(sha) : TRUE).data IN
    IF ~ZlibHeaderOk(file) THEN [status |-> "err", err |-> "zlib", data |-> <<>>]
    ELSE LET of == ReadObjectFile(ZlibReader(file)) IN
    IF of.nil THEN [status |-> "panic", err |-> "nil pointer dereference", data |-> <<>>]
    ELSE IF of.ObjectType # objectType
    THEN [status |-> "err", err |-> "wrong object type", data |-> <<>>]
    ELSE IF of.ObjectType = Blob THEN [status |-> "ok", err |-> "", data |-> of.Data]
    ELSE [status |-> "err", err |-> "unsupported object type", data |-> <<>>]

\* The hashes a caller passes: one a call has returned, or one of no object.
KnownHashes ==
    {h \in {sret[k].hash : k \in Procs} \cup {w.hash : w \in written} : Len(h) > 0}
        \cup {Hash([ObjectType |-> Blob, Data |-> <<120>>])}

LoadObject(i, sha, objectType) ==
    /\ spc[i] = "idle"
    /\ scalls < MaxCalls
    /\ scalls' = scalls + 1
    /\ LET res == LoadObjectResult(sha, objectType) IN
       sret' = [sret EXCEPT ![i] =
                  [NoSRet EXCEPT !.op = "LoadObject", !.status = res.status, !.hash = sha,
                                 !.want = objectType, !.data = res.data, !.err = res.err]]
    /\ UNCHANGED <<objdirs, objfiles, tmp, spc, sreq, written, codecVars, locatorVars>>

\* The fan-out directories the objects of the model go to.
FanoutDirs == {ObjectDir(Hash(of)) : of \in ObjectFiles}

\* A repository as Init leaves it (objects/ empty), or one in which fan-out
\* directories have been made since.
StoreInit ==
    /\ objdirs \in SUBSET FanoutDirs
    /\ objfiles = {}
    /\ tmp      = [i \in Procs |-> NoTemp]
    /\ spc      = [i \in Procs |-> "idle"]
    /\ sreq     = [i \in Procs |-> NoReq]
    /\ sret     = [i \in Procs |-> NoSRet]
    /\ written  = {}
    /\ scalls   = 0
    /\ CodecIdle
    /\ LocatorIdle

StoreNext ==
    \E i \in Procs :
        \/ \E of \in ObjectFiles : WriteObject(i, of)
        \/ WriteFileTemp(i)
        \/ WriteFileCopy(i)
        \/ WriteFileRename(i)
        \/ \E of \in ObjectFiles : HashDry(i, of)
        \/ \E sha \in KnownHashes, objectType \in ObjectTypes : LoadObject(i, sha, objectType)

StoreSpec == StoreInit /\ [][StoreNext]_vars


\* The hash-object command: the type must be "blob"; with the write flag the
\* object goes through WriteObject, without it through Hash alone.
BlobFiles == {of \in ObjectFiles : of.ObjectType = Blob}

HashObjectNext ==
    \E i \in Procs :
        \/ \E of \in BlobFiles : WriteObject(i, of)
        \/ WriteFileTemp(i)
        \/ WriteFileCopy(i)
        \/ WriteFileRename(i)
        \/ \E of \in BlobFiles : HashDry(i, of)

HashObjectSpec == StoreInit /\ [][HashObjectNext]_vars

-----------------------------------------------------------------------------
(* Claims about the object store *)

WriteReturned(i) == sret[i].op = "WriteObject" /\ sret[i].status # "running"
LoadReturned(i)  == sret[i].op = "LoadObject"
Recognized(of)   == of.ObjectType \in validObjectType

\* The record <kind> SP <len(P)> NUL <P>; payloads are shorter than ten bytes.
Record(of) == of.ObjectType \o <<SP, 48 + Len(of.Data), NUL>> \o of.Data

\* C1 as claimed: in a repository produced by Init, every WriteObject of a
\* recognized kind succeeds, and a LoadObject of the hash it returned gives
\* back exactly the payload.
C1_RoundTrip ==
    \A i \in Procs :
        (WriteReturned(i) /\ Recognized(sret[i].of)) =>
            /\ sret[i].status = "ok"
            /\ LoadObjectResult(sret[i].hash, sret[i].of.ObjectType)
                  = [status |-> "ok", err |-> "", data |-> sret[i].of.Data]

\* C2 as claimed: a WriteObject of a recognized kind, repeated or not,
\* succeeds and leaves exactly one file at objects/<hash[0:2]>/<hash[2:]>, two
\* writes of the same object return the same hash, and every object once
\* written stays readable with its payload.
C2_Idempotent ==
    /\ \A i \in Procs :
          (WriteReturned(i) /\ Recognized(sret[i].of)) =>
              /\ sret[i].status = "ok"
              /\ Cardinality(FilesAt(sret[i].hash)) = 1
    /\ \A i, j \in Procs :
          (WriteReturned(i) /\ WriteReturned(j) /\ sret[i].of = sret[j].of)
              => sret[i].hash = sret[j].hash
    /\ \A w \in written :
          Recognized(w.of) =>
              LoadObjectResult(w.hash, w.of.ObjectType).data = w.of.Data

\* C3 as claimed: a WriteObject called when objects/<hash[0:2]>/ does not
\* exist creates it, succeeds, and the object file is there afterwards.
C3_CreatesPrefix ==
    \A i \in Procs :
        (WriteReturned(i) /\ ~sret[i].hadDir) =>
            /\ sret[i].status = "ok"
            /\ ObjectDir(sret[i].hash) \in objdirs
            /\ FilesAt(sret[i].hash) # {}

\* C4 as claimed: LoadObject reports every failure as an error value: a
\* missing file, content that does not decode to a record, a kind other than
\* the expected one; it returns a payload in none of these cases and never
\* aborts.
C4_ErrorsReturned ==
    \A i \in Procs :
        LoadReturned(i) =>
            /\ sret[i].status \in {"ok", "err"}
            /\ sret[i].status = "ok" =>
                  \E f \in FilesAt(sret[i].hash) :
                      /\ ZlibHeaderOk(f.data)
                      /\ ~ReadObjectFile(ZlibReader(f.data)).nil
                      /\ ReadObjectFile(ZlibReader(f.data)).ObjectType = sret[i].want

\* C5 as claimed: under any interleaving no object file is ever partial, a
\* LoadObject finds nothing or the complete payload written for the hash,
\* and of two WriteObject calls of the same content that overlap, both
\* succeed.
C5_AtomicVisibility ==
    /\ \A f \in objfiles :
          \E of \in ObjectFiles :
              /\ f.data = ZlibWrite(ObjectFileWrite(of))
              /\ f.dir = ObjectDir(Hash(of)) /\ f.name = ObjectName(Hash(of))
    /\ \A i, j \in Procs :
          ( /\ i # j /\ spc[i] # "idle" /\ WriteReturned(j)
            /\ sreq[i].of = sret[j].of /\ Recognized(sret[j].of) )
          => sret[j].status = "ok"

\* C10: the hash WriteObject returns and the hash Hash returns for the same
\* (kind, P) are equal, both being the hex digest of the whole record
\* <kind> SP <len(P)> NUL <P>; and Hash leaves the storage as it was.
C10_HashAgrees ==
    /\ [](\A i \in Procs :
            (sret[i].op \in {"WriteObject", "Hash"} /\ sret[i].status # "running")
                => sret[i].hash = HexEncodeToString(Sha1Sum(Record(sret[i].of))))
    /\ [](\A i, j \in Procs :
            ( /\ WriteReturned(i) /\ sret[j].op = "Hash"
              /\ sret[i].of = sret[j].of ) => sret[i].hash = sret[j].hash)
    /\ [][\A i \in Procs :
            (sret'[i].op = "Hash" /\ sret'[i] # sret[i])
                => UNCHANGED <<objdirs, objfiles, tmp>>]_vars

\* An object has been written and hashed dry, with one hash.
C10_Witness ==
    \E i, j \in Procs :
        /\ WriteReturned(i) /\ sret[i].status = "ok"
        /\ sret[j].op = "Hash" /\ sret[j].of = sret[i].of
        /\ sret[j].hash = sret[i].hash
        /\ FilesAt(sret[i].hash) # {}

=============================================================================
